---- MODULE Spec2Model ----
(***************************************************************************)
(* Verification model of the marketing agent: the orchestration pipeline   *)
(* (runAgent and the /api/agents/outreach command surface), the approval   *)
(* handlers of the campaign page, and the follow-up scheduler/processor.   *)
(***************************************************************************)
EXTENDS Integers, Sequences, FiniteSets, TLC

\* ---------------------------------------------------------------------
\* Bounds
\* ---------------------------------------------------------------------
MaxTargets == 3      \* most targets discovery returns in a run
NumMessages == 3     \* messages of the campaign under review
MaxEdits == 1        \* distinct edited bodies a reviewer may type
MaxActions == 2      \* most FollowUpAction rows ever inserted
MaxTime == 1         \* last instant of the scheduler clock
MaxTicks == 2        \* most processFollowUps invocations
MaxHours == 1        \* last hour of the trigger engine's clock and longest delay
MaxRules == 2        \* most rules of a FollowUpConfig
MaxItems == 2        \* most items of a research answer
MaxBatch == 3        \* most messages handed to sendBulkEmails

\* ---------------------------------------------------------------------
\* State
\* ---------------------------------------------------------------------
VARIABLES
    \* runAgent / POST
    agentPc,        \* position of the run inside runAgent
    caller,         \* who invoked runAgent: "route" (POST) or "direct"
    observer,       \* params.onProgress: "none", "ok" or "throws"
    intentResult,   \* the IntentResult parseIntent returned
    targets,        \* number of targets discovery returned (-1 before discovery)
    events,         \* progress events delivered to the observer, in order
    result,         \* value returned by runAgent
    saveCalls,      \* invocations of saveCampaignToDatabase
    response,       \* JSON body + status returned by POST
    classified,     \* what the intent classifier did: threw, or its JSON answer
    discovery,      \* how searchTargets ended: "returned" or "caught"
    generating,     \* targets whose generateEmail call is in flight
    completed,      \* targets whose generateEmail call resolved, in that order
    emails,         \* the array generateBulkEmails returned: position -> target
    store,          \* Campaign row, Target rows, Message rows of the record store
    saveResult,     \* value returned by saveCampaignToDatabase
    \* campaign page
    step,           \* 'input' | 'review' | 'sending' | 'complete'
    messages,       \* campaign.messages: id -> [status, body]
    stats,          \* campaign.stats
    lastCall,       \* the handler invoked last and its arguments
    \* follow-up engine
    rules,          \* FollowUpRule rows: id -> [maxAttempts, status, present]
    actions,        \* FollowUpAction rows, in insertion order
    now,            \* scheduler clock
    ticks,          \* the two processFollowUps invocations (run: invocation number)
    ticksStarted,   \* processFollowUps invocations so far
    sends,          \* per action row: calls of sendFollowUp
    transitions,    \* per action row: recorded SENT/FAILED updates
    followUpStatus, \* per action row: status of the follow-up message generated last
    originalStatus, \* per original message: its status in the Message table
    \* calls of the pure functions
    evalInput,      \* arguments of evaluateFollowUpTriggers (and Date.now())
    evalTriggers,   \* the FollowUpTrigger[] it returned
    searchInput,    \* params.count and the parsed items inside searchTargets
    searchOutput,   \* the TargetResult[] searchTargets returned
    channelInput,   \* the intent selectChannel is called with
    channelOutput,  \* the ChannelRecommendation selectChannel returned
    orchestratorChannel, \* the channel the orchestrator's own selectChannel returned
    bulkInput,      \* the messages and options sendBulkEmails is called with
    bulkRun,        \* sendBulkEmails' position, counters and results
    templateInput,  \* the intent (and follow-up rule) a message is generated for
    templateOutput, \* the template selected and the placeholders left in the body
    genInput,       \* the targets and purpose a batch of messages is generated for
    genOutput       \* the batch generated

runVars == <<classified, discovery, generating, completed, emails, store, saveResult>>
agentVars == <<agentPc, caller, observer, intentResult, targets, events, result, saveCalls,
               response, runVars>>
pageVars == <<step, messages, stats, lastCall>>
followVars == <<rules, actions, now, ticks, ticksStarted, sends, transitions, followUpStatus,
                originalStatus>>
callVars == <<evalInput, evalTriggers, searchInput, searchOutput,
              channelInput, channelOutput, orchestratorChannel, bulkInput, bulkRun,
              templateInput, templateOutput, genInput, genOutput>>
vars == <<agentVars, pageVars, followVars, callVars>>

\* ---------------------------------------------------------------------
\* runAgent (orchestrator.ts) and POST (api/agents/outreach/route.ts)
\* ---------------------------------------------------------------------

\* The program points of runAgent at which params.onProgress is called.
NotifyPoints ==
    {"notify_started", "notify_parsing", "notify_intent_parsed", "notify_searching",
     "notify_targets_found", "notify_generating", "notify_complete"}

\* The progress event each onProgress call of runAgent delivers.
ProgressEvent(pc) ==
    CASE pc = "notify_started" -> [stage |-> "started", progress |-> 5]
      [] pc = "notify_parsing" -> [stage |-> "parsing", progress |-> 10]
      [] pc = "notify_intent_parsed" -> [stage |-> "intent_parsed", progress |-> 20]
      [] pc = "notify_searching" -> [stage |-> "searching", progress |-> 30]
      [] pc = "notify_targets_found" -> [stage |-> "targets_found", progress |-> 50]
      [] pc = "notify_generating" -> [stage |-> "generating", progress |-> 60]
      [] pc = "notify_complete" -> [stage |-> "complete", progress |-> 100]
      [] OTHER -> [stage |-> "error", progress |-> 0]

\* The statement that follows each onProgress call.
AfterNotify(pc) ==
    CASE pc = "notify_started" -> "notify_parsing"
      [] pc = "notify_parsing" -> "parseIntent"
      [] pc = "notify_intent_parsed" -> "notify_searching"
      [] pc = "notify_searching" -> "searchTargets"
      [] pc = "notify_targets_found" -> "notify_generating"
      [] pc = "notify_generating" -> "generateBulkEmails"
      [] OTHER -> "return_success"

\* 'started' is delivered before the try block is entered.
InsideTry(pc) == pc # "notify_started"

\* What the classifier's JSON answer may hold ("" and 0: field absent).
RawChannels == {"", "email", "dm", "whatsapp", "generic"}
RawCounts == {-1, 0, 3, 100, 500}
RawTargetTypes == {"", "restaurant_owner"}
RawPurposes == {"", "partnership"}
ClassifierAnswers ==
    [target_type : RawTargetTypes, purpose : RawPurposes,
     count : RawCounts, channel : RawChannels]
NoAnswer == [target_type |-> "", purpose |-> "", count |-> 0, channel |-> ""]
NotClassified == [kind |-> "none", answer |-> NoAnswer]

DefaultCount == 10          \* result.count || 10

\* No IntentResult yet.
NoIntent == [success |-> FALSE, targetType |-> "", purpose |-> "", count |-> 0,
             channel |-> ""]

\* parseIntent (openaiClient): the IntentResult built from the classifier's
\* answer; every absent (falsy) field gets its default.
parseIntent(answer) ==
    [success |-> TRUE,
     targetType |-> IF answer.target_type # "" THEN answer.target_type ELSE "generic",
     purpose |-> IF answer.purpose # "" THEN answer.purpose ELSE "general",
     count |-> IF answer.count # 0 THEN answer.count ELSE DefaultCount,
     channel |-> IF answer.channel # "" THEN answer.channel ELSE "email"]

\* parseIntent's catch block: the call or JSON.parse threw.
parseIntent_failure ==
    [success |-> FALSE, targetType |-> "generic", purpose |-> "general",
     count |-> DefaultCount, channel |-> "email"]

\* The sizes searchTargets' result may have: targets.slice(0, params.count)
\* of a list of kept items (a negative count cuts from the end).
Discoverable(count) ==
    IF count < 0 THEN 0..MaxTargets
    ELSE {n \in 0..MaxTargets : n <= count}

\* `target_${i}`: the ids of the returned campaign's targets.
IndexTargetId(i) == [origin |-> "index", i |-> i]
\* `target_${Date.now()}_${i}`: the ids in the records handed to persistence.
StampedTargetId(i) == [origin |-> "Date.now()", i |-> i]
\* The id the record store gives the i-th inserted Target row (no id is
\* part of the inserted record).
StoredTargetId(i) == [origin |-> "store", i |-> i]

NoCampaign == [present |-> FALSE, id |-> "", targets |-> 0, messages |-> 0,
               messageStatus |-> "",
               intentChannel |-> "", settingsChannel |-> "", messageChannel |-> "",
               count |-> 0, targetIds |-> <<>>, messageTargetIds |-> <<>>,
               messageFor |-> <<>>]
NoResult == [returned |-> FALSE, success |-> FALSE, campaign |-> NoCampaign,
             stage |-> "", progress |-> 0, error |-> ""]
NoResponse == [status |-> 0, success |-> FALSE, code |-> "", message |-> ""]

ParseClarification == "Failed to parse intent. Please rephrase your request."
NoTargetsError == "No targets found"
ObserverError == "observer threw"

\* The value runAgent returns from one of its three failure returns.
FailureResult(stage, progress, error) ==
    [returned |-> TRUE, success |-> FALSE, campaign |-> NoCampaign,
     stage |-> stage, progress |-> progress, error |-> error]

\* The value runAgent returns on success.
SuccessResult(n) ==
    [returned |-> TRUE, success |-> TRUE,
     campaign |-> [present |-> TRUE, id |-> saveResult.id,
                   targets |-> n, messages |-> Len(emails),
                   targetIds |-> [i \in 1..n |-> IndexTargetId(i)],
                   messageTargetIds |-> [i \in 1..Len(emails) |-> IndexTargetId(i)],
                   messageFor |-> emails,
                   messageStatus |-> "draft",
                   intentChannel |-> intentResult.channel,
                   settingsChannel |-> intentResult.channel,
                   messageChannel |-> intentResult.channel,
                   count |-> n],
     stage |-> "complete", progress |-> 100, error |-> ""]

\* A caller other than the route invokes runAgent, with or without an observer.
runAgent_call ==
    /\ agentPc = "idle"
    /\ \E o \in {"none", "ok", "throws"} :
         /\ observer' = o
         /\ caller' = "direct"
    /\ agentPc' = "notify_started"
    /\ UNCHANGED <<targets, events, result, saveCalls, response, intentResult>>
    /\ UNCHANGED <<runVars, pageVars, followVars, callVars>>

\* params.onProgress(...) returns normally (or no observer was supplied).
runAgent_notify ==
    /\ agentPc \in NotifyPoints
    /\ events' = IF observer = "none" THEN events
                 ELSE Append(events, ProgressEvent(agentPc))
    /\ agentPc' = AfterNotify(agentPc)
    /\ UNCHANGED <<caller, observer, targets, result, saveCalls, response, intentResult>>
    /\ UNCHANGED <<runVars, pageVars, followVars, callVars>>

\* params.onProgress(...) throws: the catch block is entered, or, before the
\* try block, the promise rejects.
runAgent_notifyThrows ==
    /\ agentPc \in NotifyPoints
    /\ observer = "throws"
    /\ agentPc' = IF InsideTry(agentPc) THEN "catch" ELSE "rejected"
    /\ UNCHANGED <<caller, observer, targets, events, result, saveCalls, response, intentResult>>
    /\ UNCHANGED <<runVars, pageVars, followVars, callVars>>

\* Step 1: parseIntent never throws; it returns success or a clarification.
runAgent_parseIntent ==
    /\ agentPc = "parseIntent"
    /\ \/ /\ \E answer \in ClassifierAnswers :
                /\ classified' = [kind |-> "answered", answer |-> answer]
                /\ intentResult' = parseIntent(answer)
          /\ agentPc' = "notify_intent_parsed"
          /\ UNCHANGED result
       \/ /\ classified' = [kind |-> "threw", answer |-> NoAnswer]
          /\ intentResult' = parseIntent_failure
          /\ agentPc' = "returned"
          /\ result' = FailureResult("error", 0, ParseClarification)
    /\ UNCHANGED <<caller, observer, targets, events, saveCalls, response>>
    /\ UNCHANGED <<discovery, generating, completed, emails, store, saveResult>>
    /\ UNCHANGED <<pageVars, followVars, callVars>>

\* The mutant of runAgent_searchTargets: the empty-list check is missing.
runAgent_searchTargets_NoCheck ==
    /\ agentPc = "searchTargets"
    /\ \E n \in Discoverable(intentResult.count) :
         /\ targets' = n
         /\ agentPc' = "notify_targets_found"
         /\ UNCHANGED result
    /\ discovery' = "returned"
    /\ UNCHANGED <<caller, observer, events, saveCalls, response, intentResult>>
    /\ UNCHANGED <<classified, generating, completed, emails, store, saveResult>>
    /\ UNCHANGED <<pageVars, followVars, callVars>>

\* Step 2: searchTargets never throws: it returns the targets it kept, or
\* [] from one of its catch blocks; an empty list ends the run.
runAgent_searchTargets ==
    /\ agentPc = "searchTargets"
    /\ \/ /\ discovery' = "returned"
          /\ \E n \in Discoverable(intentResult.count) : targets' = n
       \/ /\ discovery' = "caught"
          /\ targets' = 0
    /\ IF targets' = 0
       THEN /\ agentPc' = "returned"
            /\ result' = FailureResult("no_targets", 40, NoTargetsError)
       ELSE /\ agentPc' = "notify_targets_found"
            /\ UNCHANGED result
    /\ UNCHANGED <<caller, observer, events, saveCalls, response, intentResult>>
    /\ UNCHANGED <<classified, generating, completed, emails, store, saveResult>>
    /\ UNCHANGED <<pageVars, followVars, callVars>>

\* The mutant of PromiseAll: the values in the order in which they resolved.
PromiseAll_ResolutionOrder(order) == order

\* Promise.all(promises): the array of the promises' values, in the order
\* of the promises (one per target, in target order), whatever the order
\* in which they resolved.
PromiseAll(order) == [i \in 1..Len(order) |-> i]

\* Step 3: generateBulkEmails maps every target to a generateEmail call;
\* all calls are in flight before the first one is awaited.
runAgent_generateBulkEmails ==
    /\ agentPc = "generateBulkEmails"
    /\ generating' = 1..targets
    /\ agentPc' = "awaitEmails"
    /\ UNCHANGED <<caller, observer, targets, events, result, saveCalls, response, intentResult>>
    /\ UNCHANGED <<classified, discovery, completed, emails, store, saveResult>>
    /\ UNCHANGED <<pageVars, followVars, callVars>>

\* generateEmail for target i resolves (it never rejects: its catch block
\* returns a fallback email).
generateEmail_resolve(i) ==
    /\ agentPc = "awaitEmails"
    /\ i \in generating
    /\ generating' = generating \ {i}
    /\ completed' = Append(completed, i)
    /\ UNCHANGED <<agentPc, caller, observer, targets, events, result, saveCalls, response,
                   intentResult>>
    /\ UNCHANGED <<classified, discovery, emails, store, saveResult>>
    /\ UNCHANGED <<pageVars, followVars, callVars>>

\* await Promise.all(promises) resumes once every call has resolved, and
\* generateBulkEmails returns the emails.
generateBulkEmails_return ==
    /\ agentPc = "awaitEmails"
    /\ generating = {}
    /\ emails' = PromiseAll(completed)
    /\ agentPc' = "saveCampaignToDatabase"
    /\ UNCHANGED <<caller, observer, targets, events, result, saveCalls, response, intentResult>>
    /\ UNCHANGED <<classified, discovery, generating, completed, store, saveResult>>
    /\ UNCHANGED <<pageVars, followVars, callVars>>

EmptyStore == [campaign |-> FALSE, targets |-> <<>>, messageBatch |-> <<>>, messages |-> <<>>]
NoSaveResult == [saved |-> FALSE, id |-> ""]

\* createTargetsBatch: one Target row per record, ids assigned by the store.
createTargetsBatch(n) == [i \in 1..n |-> [id |-> StoredTargetId(i)]]

\* The records runAgent hands to createMessagesBatch through
\* saveCampaignToDatabase: messages.map(message => ({targetId: message.targetId, ...})).
MessageBatch(n) == [i \in 1..n |-> [targetId |-> StampedTargetId(i)]]

\* How far saveCampaignToDatabase gets before it returns.
SaveOutcomes == {"unavailable", "campaign_failed", "targets_failed", "messages_failed", "saved"}

\* Step 4: the campaign, its targets and its messages are handed to
\* persistence; saveCampaignToDatabase never throws: it returns saved=false
\* with the local id when the store is unavailable or an insert throws.
runAgent_saveCampaignToDatabase ==
    /\ agentPc = "saveCampaignToDatabase"
    /\ saveCalls' = saveCalls + 1
    /\ \E outcome \in SaveOutcomes :
         /\ store' =
              [campaign |-> outcome \in {"targets_failed", "messages_failed", "saved"},
               targets |-> IF outcome \in {"messages_failed", "saved"}
                           THEN createTargetsBatch(targets) ELSE <<>>,
               messageBatch |-> IF outcome \in {"messages_failed", "saved"}
                                THEN MessageBatch(Len(emails)) ELSE <<>>,
               messages |-> IF outcome = "saved" THEN MessageBatch(Len(emails)) ELSE <<>>]
         /\ saveResult' = IF outcome = "saved" THEN [saved |-> TRUE, id |-> "store"]
                          ELSE [saved |-> FALSE, id |-> "local"]
    /\ agentPc' = "notify_complete"
    /\ UNCHANGED <<caller, observer, targets, events, result, response, intentResult>>
    /\ UNCHANGED <<classified, discovery, generating, completed, emails>>
    /\ UNCHANGED <<pageVars, followVars, callVars>>

\* return { success: true, campaign, ... }
runAgent_returnSuccess ==
    /\ agentPc = "return_success"
    /\ result' = SuccessResult(targets)
    /\ agentPc' = "returned"
    /\ UNCHANGED <<caller, observer, targets, events, saveCalls, response, intentResult>>
    /\ UNCHANGED <<runVars, pageVars, followVars, callVars>>

\* catch (error): the error event is delivered and the failure is returned;
\* an observer that throws again makes the promise reject.
runAgent_catch ==
    /\ agentPc = "catch"
    /\ \/ /\ events' = Append(events, ProgressEvent("catch"))
          /\ result' = FailureResult("error", 0, ObserverError)
          /\ agentPc' = "returned"
       \/ /\ agentPc' = "rejected"
          /\ UNCHANGED <<events, result>>
    /\ UNCHANGED <<caller, observer, targets, saveCalls, response, intentResult>>
    /\ UNCHANGED <<runVars, pageVars, followVars, callVars>>

\* POST: the request body cannot be parsed, or input is missing or no string.
POST_reject ==
    /\ agentPc = "idle"
    /\ response = NoResponse
    /\ \E kind \in {"malformed", "missing"} :
         response' = IF kind = "malformed"
                     THEN [status |-> 500, success |-> FALSE, code |-> "INTERNAL_ERROR",
                           message |-> "An internal error occurred"]
                     ELSE [status |-> 400, success |-> FALSE, code |-> "INVALID_INPUT",
                           message |-> "Input is required and must be a string"]
    /\ UNCHANGED <<agentPc, caller, observer, targets, events, result, saveCalls, intentResult>>
    /\ UNCHANGED <<runVars, pageVars, followVars, callVars>>

\* POST: a valid input runs the agent with the logging observer.
POST_runAgent ==
    /\ agentPc = "idle"
    /\ response = NoResponse
    /\ caller' = "route"
    /\ observer' = "ok"
    /\ agentPc' = "notify_started"
    /\ UNCHANGED <<targets, events, result, saveCalls, response, intentResult>>
    /\ UNCHANGED <<runVars, pageVars, followVars, callVars>>

\* The error code POST puts on a failed run.
ErrorCode(res) == "AGENT_ERROR"

\* POST: the response built from the value runAgent returned.
POST_respond ==
    /\ agentPc = "returned"
    /\ caller = "route"
    /\ response = NoResponse
    /\ response' =
         IF result.success
         THEN [status |-> 200, success |-> TRUE, code |-> "", message |-> ""]
         ELSE [status |-> 500, success |-> FALSE, code |-> ErrorCode(result),
               message |-> IF result.error # "" THEN result.error
                           ELSE "Agent execution failed"]
    /\ UNCHANGED <<agentPc, caller, observer, targets, events, result, saveCalls, intentResult>>
    /\ UNCHANGED <<runVars, pageVars, followVars, callVars>>

AgentNext ==
    \/ runAgent_call
    \/ runAgent_notify
    \/ runAgent_notifyThrows
    \/ runAgent_parseIntent
    \/ runAgent_searchTargets
    \/ runAgent_generateBulkEmails
    \/ \E i \in 1..MaxTargets : generateEmail_resolve(i)
    \/ generateBulkEmails_return
    \/ runAgent_saveCampaignToDatabase
    \/ runAgent_returnSuccess
    \/ runAgent_catch
    \/ POST_reject
    \/ POST_runAgent
    \/ POST_respond

AgentInit ==
    /\ agentPc = "idle"
    /\ caller = "direct"
    /\ observer = "none"
    /\ intentResult = NoIntent
    /\ targets = -1
    /\ events = <<>>
    /\ result = NoResult
    /\ saveCalls = 0
    /\ response = NoResponse
    /\ classified = NotClassified
    /\ discovery = "none"
    /\ generating = {}
    /\ completed = <<>>
    /\ emails = <<>>
    /\ store = EmptyStore
    /\ saveResult = NoSaveResult

\* ---------------------------------------------------------------------
\* Campaign page (app/campaigns/page.tsx) behind the approval queue
\* (components/delegation/ApprovalQueue) and the action button
\* ---------------------------------------------------------------------

MessageIds == 1..NumMessages
Bodies == 0..MaxEdits       \* 0 is the generated body, k > 0 an edited one

\* The stats object of a freshly assembled campaign of n targets.
InitialStats(n) ==
    [totalTargets |-> n, approvedMessages |-> 0, sentMessages |-> 0,
     deliveredMessages |-> 0, openedMessages |-> 0, clickedMessages |-> 0,
     repliedMessages |-> 0, bouncedMessages |-> 0, failedMessages |-> 0]

\* The number of messages of msgs whose status is s.
CountStatus(msgs, s) == Cardinality({i \in DOMAIN msgs : msgs[i].status = s})

\* CampaignStats recomputed from the messages: one counter per status.
RecomputeStats(msgs, n) ==
    [totalTargets |-> n,
     approvedMessages |-> CountStatus(msgs, "approved"),
     sentMessages |-> CountStatus(msgs, "sent"),
     deliveredMessages |-> CountStatus(msgs, "delivered"),
     openedMessages |-> CountStatus(msgs, "opened"),
     clickedMessages |-> CountStatus(msgs, "clicked"),
     repliedMessages |-> CountStatus(msgs, "replied"),
     bouncedMessages |-> CountStatus(msgs, "bounced"),
     failedMessages |-> CountStatus(msgs, "failed")]

NoCall == [op |-> "none", id |-> 0, content |-> 0]

\* What the approval queue offers for the campaign on screen.
PendingMessages == {i \in DOMAIN messages : messages[i].status = "draft"}
ApprovedMessages == {i \in DOMAIN messages : messages[i].status = "approved"}

\* handleSubmit: the response carries a campaign of n draft messages (n = 0
\* is the response without campaign data), or the request fails.
handleSubmit ==
    /\ step = "input"
    /\ \/ \E n \in 0..NumMessages :
            /\ messages' = [i \in 1..n |-> [status |-> "draft", body |-> 0]]
            /\ stats' = InitialStats(n)
            /\ step' = "review"
       \/ UNCHANGED <<messages, stats, step>>
    /\ lastCall' = [op |-> "submit", id |-> 0, content |-> 0]
    /\ UNCHANGED <<agentVars, followVars, callVars>>

\* handleApprove, from the Approve button of a draft card.
handleApprove(id) ==
    /\ step = "review"
    /\ id \in PendingMessages
    /\ messages' = [messages EXCEPT ![id].status = "approved"]
    /\ lastCall' = [op |-> "approve", id |-> id, content |-> 0]
    /\ UNCHANGED <<step, stats>>
    /\ UNCHANGED <<agentVars, followVars, callVars>>

\* handleReject, from the Reject button of a draft card.
handleReject(id) ==
    /\ step = "review"
    /\ id \in PendingMessages
    /\ messages' = [messages EXCEPT ![id].status = "failed"]
    /\ lastCall' = [op |-> "reject", id |-> id, content |-> 0]
    /\ UNCHANGED <<step, stats>>
    /\ UNCHANGED <<agentVars, followVars, callVars>>

\* The mutant of handleEdit: the edited body is dropped.
handleEdit_KeepsBody(id, newContent) ==
    /\ step = "review"
    /\ id \in PendingMessages
    /\ messages' = [messages EXCEPT ![id].status = "approved"]
    /\ lastCall' = [op |-> "edit", id |-> id, content |-> newContent]
    /\ UNCHANGED <<step, stats>>
    /\ UNCHANGED <<agentVars, followVars, callVars>>

\* handleEdit, from the "Save & Approve" button of a draft card in edit mode.
handleEdit(id, newContent) ==
    /\ step = "review"
    /\ id \in PendingMessages
    /\ messages' = [messages EXCEPT ![id] = [status |-> "approved", body |-> newContent]]
    /\ lastCall' = [op |-> "edit", id |-> id, content |-> newContent]
    /\ UNCHANGED <<step, stats>>
    /\ UNCHANGED <<agentVars, followVars, callVars>>

\* handleSend up to its await: the Send Now button of an approved card
\* (id > 0), or handleSendAll behind Send All / the action button (id = 0),
\* which both need an approved message.
handleSend_begin ==
    /\ step = "review"
    /\ \E id \in {0} \cup ApprovedMessages :
         /\ id = 0 => ApprovedMessages # {}
         /\ lastCall' = [op |-> IF id = 0 THEN "sendAll" ELSE "send",
                         id |-> id, content |-> 0]
    /\ step' = "sending"
    /\ UNCHANGED <<messages, stats>>
    /\ UNCHANGED <<agentVars, followVars, callVars>>

\* handleSend after its await: the selected message, or with no id every
\* message, becomes sent.
handleSend_finish ==
    /\ step = "sending"
    /\ messages' = [i \in DOMAIN messages |->
                      IF lastCall.id = 0 \/ i = lastCall.id
                      THEN [messages[i] EXCEPT !.status = "sent"]
                      ELSE messages[i]]
    /\ step' = "complete"
    /\ UNCHANGED <<stats, lastCall>>
    /\ UNCHANGED <<agentVars, followVars, callVars>>

\* handleApproveAll, from the Approve All button (shown while a draft remains).
handleApproveAll ==
    /\ step = "review"
    /\ PendingMessages # {}
    /\ messages' = [i \in DOMAIN messages |-> [messages[i] EXCEPT !.status = "approved"]]
    /\ lastCall' = [op |-> "approveAll", id |-> 0, content |-> 0]
    /\ UNCHANGED <<step, stats>>
    /\ UNCHANGED <<agentVars, followVars, callVars>>

\* onBack of the review step and onNewCampaign of the complete step.
backToInput ==
    /\ step \in {"review", "complete"}
    /\ step' = "input"
    /\ messages' = IF step = "complete" THEN <<>> ELSE messages
    /\ stats' = IF step = "complete" THEN InitialStats(0) ELSE stats
    /\ lastCall' = [op |-> "back", id |-> 0, content |-> 0]
    /\ UNCHANGED <<agentVars, followVars, callVars>>

PageNext ==
    \/ handleSubmit
    \/ \E id \in MessageIds : handleApprove(id)
    \/ \E id \in MessageIds : handleReject(id)
    \/ \E id \in MessageIds, c \in Bodies : handleEdit(id, c)
    \/ handleSend_begin
    \/ handleSend_finish
    \/ handleApproveAll
    \/ backToInput

PageInit ==
    /\ step = "input"
    /\ messages = <<>>
    /\ stats = InitialStats(0)
    /\ lastCall = NoCall

\* ---------------------------------------------------------------------
\* Follow-up engine (lib/agents/followUpAutomation.ts) over the
\* FollowUpRule / FollowUpAction tables (lib/database)
\* ---------------------------------------------------------------------

RuleIds == 1..1             \* the rule of the campaign
OriginalIds == 1..1         \* the original message follow-ups refer to
TickIds == 1..2             \* two scheduler ticks that may overlap
DefaultMaxAttempts == 3     \* params.maxAttempts || 3

NoRule == [present |-> FALSE, maxAttempts |-> 0, status |-> ""]
IdleTick == [run |-> 0, pc |-> "idle", pending |-> <<>>, i |-> 0]

\* The rows of the FollowUpAction table for one (rule, original message) pair.
ActionsFor(r, m) == {a \in DOMAIN actions : actions[a].ruleId = r /\ actions[a].messageId = m}

\* createFollowUpRuleEngine -> createFollowUpRule: maxAttempts 0 stands for
\* an absent parameter, which both levels replace by 3.
createFollowUpRuleEngine(r, maxAttempts) ==
    /\ ~rules[r].present
    /\ rules' = [rules EXCEPT ![r] =
                   [present |-> TRUE,
                    maxAttempts |-> IF maxAttempts # 0 THEN maxAttempts
                                    ELSE DefaultMaxAttempts,
                    status |-> "ACTIVE"]]
    /\ UNCHANGED <<actions, now, ticks, ticksStarted, sends, transitions, followUpStatus>>
    /\ UNCHANGED originalStatus
    /\ UNCHANGED <<agentVars, pageVars, callVars>>

\* scheduleFollowUp: one PENDING row is inserted.
scheduleFollowUp(r, m, scheduledFor) ==
    /\ rules[r].present
    /\ Len(actions) < MaxActions
    /\ actions' = Append(actions, [ruleId |-> r, messageId |-> m,
                                   scheduledAt |-> scheduledFor, status |-> "PENDING"])
    /\ sends' = Append(sends, 0)
    /\ transitions' = Append(transitions, 0)
    /\ followUpStatus' = Append(followUpStatus, "")
    /\ UNCHANGED <<rules, now, ticks, ticksStarted>>
    /\ UNCHANGED originalStatus
    /\ UNCHANGED <<agentVars, pageVars, callVars>>

\* Time passes.
advanceClock ==
    /\ now < MaxTime
    /\ now' = now + 1
    /\ UNCHANGED <<rules, actions, ticks, ticksStarted, sends, transitions, followUpStatus>>
    /\ UNCHANGED originalStatus
    /\ UNCHANGED <<agentVars, pageVars, callVars>>

\* The rows of set S in ascending scheduledAt order (insertion order on ties).
RECURSIVE OrderByScheduledAt(_)
OrderByScheduledAt(S) ==
    IF S = {} THEN <<>>
    ELSE LET first == CHOOSE a \in S :
                        \A b \in S : \/ actions[a].scheduledAt < actions[b].scheduledAt
                                     \/ /\ actions[a].scheduledAt = actions[b].scheduledAt
                                        /\ a <= b
         IN <<first>> \o OrderByScheduledAt(S \ {first})

\* The mutant of getFollowUpActionsPending: the status filter is missing.
getFollowUpActionsPending_AnyStatus ==
    OrderByScheduledAt({a \in DOMAIN actions : actions[a].scheduledAt <= now})

\* getFollowUpActionsPending: status = PENDING and scheduledAt <= now,
\* ordered by scheduledAt.
getFollowUpActionsPending ==
    OrderByScheduledAt({a \in DOMAIN actions :
                          /\ actions[a].status = "PENDING"
                          /\ actions[a].scheduledAt <= now})

\* The tick moves on to the next row of its list, or returns.
NextAction(t) ==
    IF ticks[t].i < Len(ticks[t].pending)
    THEN [ticks[t] EXCEPT !.i = @ + 1, !.pc = "send"]
    ELSE [ticks[t] EXCEPT !.pc = "done"]

\* The row a tick is working on.
Current(t) == ticks[t].pending[ticks[t].i]

\* processFollowUps begins: the due rows are read once, or the read throws.
processFollowUps_begin(t) ==
    /\ ticks[t].pc \in {"idle", "done", "rejected"}
    /\ ticksStarted < MaxTicks
    /\ ticksStarted' = ticksStarted + 1
    /\ \/ LET due == getFollowUpActionsPending
          IN ticks' = [ticks EXCEPT ![t] =
                         IF due = <<>>
                         THEN [run |-> ticksStarted', pc |-> "done", pending |-> due, i |-> 0]
                         ELSE [run |-> ticksStarted', pc |-> "send", pending |-> due, i |-> 1]]
       \/ ticks' = [ticks EXCEPT ![t] =
                      [run |-> ticksStarted', pc |-> "rejected", pending |-> <<>>, i |-> 0]]
    /\ UNCHANGED <<rules, actions, now, sends, transitions, followUpStatus>>
    /\ UNCHANGED originalStatus
    /\ UNCHANGED <<agentVars, pageVars, callVars>>

\* generateFollowUpMessage: the status a follow-up message is created with.
generateFollowUpMessage == "approved"

\* Loop body up to the await of the status update: the follow-up is
\* rendered and sendFollowUp, which always succeeds, sends it; or rendering
\* throws (the row came without its rule) into the catch block.
processFollowUps_send(t) ==
    /\ ticks[t].pc = "send"
    /\ \/ /\ followUpStatus' = [followUpStatus EXCEPT ![Current(t)] = generateFollowUpMessage]
          /\ sends' = [sends EXCEPT ![Current(t)] = @ + 1]
          /\ ticks' = [ticks EXCEPT ![t].pc = "update"]
       \/ /\ ticks' = [ticks EXCEPT ![t].pc = "catch"]
          /\ UNCHANGED <<sends, followUpStatus>>
    /\ UNCHANGED <<rules, actions, now, ticksStarted, transitions>>
    /\ UNCHANGED originalStatus
    /\ UNCHANGED <<agentVars, pageVars, callVars>>

\* updateFollowUpActionStatus(action.id, 'SENT', ...) succeeds, or throws
\* into the catch block.
processFollowUps_update(t) ==
    /\ ticks[t].pc = "update"
    /\ \/ /\ actions' = [actions EXCEPT ![Current(t)].status = "SENT"]
          /\ transitions' = [transitions EXCEPT ![Current(t)] = @ + 1]
          /\ ticks' = [ticks EXCEPT ![t] = NextAction(t)]
       \/ /\ ticks' = [ticks EXCEPT ![t].pc = "catch"]
          /\ UNCHANGED <<actions, transitions>>
    /\ UNCHANGED <<rules, now, ticksStarted, sends, followUpStatus>>
    /\ UNCHANGED originalStatus
    /\ UNCHANGED <<agentVars, pageVars, callVars>>

\* catch: updateFollowUpActionStatus(action.id, 'FAILED', ...) succeeds, or
\* throws out of processFollowUps.
processFollowUps_catch(t) ==
    /\ ticks[t].pc = "catch"
    /\ \/ /\ actions' = [actions EXCEPT ![Current(t)].status = "FAILED"]
          /\ transitions' = [transitions EXCEPT ![Current(t)] = @ + 1]
          /\ ticks' = [ticks EXCEPT ![t] = NextAction(t)]
       \/ /\ ticks' = [ticks EXCEPT ![t].pc = "rejected"]
          /\ UNCHANGED <<actions, transitions>>
    /\ UNCHANGED <<rules, now, ticksStarted, sends, followUpStatus>>
    /\ UNCHANGED originalStatus
    /\ UNCHANGED <<agentVars, pageVars, callVars>>

\* updateMessageStatus(messageId, 'REPLIED'): the recipient's reply to the
\* original message is recorded.
updateMessageStatus(m) ==
    /\ originalStatus[m] = "SENT"
    /\ originalStatus' = [originalStatus EXCEPT ![m] = "REPLIED"]
    /\ UNCHANGED <<rules, actions, now, ticks, ticksStarted, sends, transitions, followUpStatus>>
    /\ UNCHANGED <<agentVars, pageVars, callVars>>

\* A tick is between its read of the due rows and its return.
Running(t) == ticks[t].pc \in {"send", "update", "catch"}

\* processFollowUps begins while no other invocation is in progress.
processFollowUps_beginInTurn(t) ==
    /\ \A u \in TickIds : ~Running(u)
    /\ processFollowUps_begin(t)

FollowNext ==
    \/ \E r \in RuleIds, k \in 0..2 : createFollowUpRuleEngine(r, k)
    \/ \E r \in RuleIds, m \in OriginalIds, at \in 0..MaxTime : scheduleFollowUp(r, m, at)
    \/ advanceClock
    \/ \E t \in TickIds : processFollowUps_begin(t)
    \/ \E t \in TickIds : processFollowUps_send(t)
    \/ \E t \in TickIds : processFollowUps_update(t)
    \/ \E t \in TickIds : processFollowUps_catch(t)

\* The same operations when the scheduler never starts a tick before the
\* previous one has returned.
FollowNextSeq ==
    \/ \E r \in RuleIds, k \in 0..2 : createFollowUpRuleEngine(r, k)
    \/ \E r \in RuleIds, m \in OriginalIds, at \in 0..MaxTime : scheduleFollowUp(r, m, at)
    \/ advanceClock
    \/ \E t \in TickIds : processFollowUps_beginInTurn(t)
    \/ \E t \in TickIds : processFollowUps_send(t)
    \/ \E t \in TickIds : processFollowUps_update(t)
    \/ \E t \in TickIds : processFollowUps_catch(t)

\* The follow-up engine while the original messages may be replied to.
FollowNextReplies ==
    \/ FollowNext
    \/ \E m \in OriginalIds : updateMessageStatus(m)

FollowInit ==
    /\ rules = [r \in RuleIds |-> NoRule]
    /\ actions = <<>>
    /\ now = 0
    /\ ticks = [t \in TickIds |-> IdleTick]
    /\ ticksStarted = 0
    /\ sends = <<>>
    /\ transitions = <<>>
    /\ followUpStatus = <<>>
    /\ originalStatus = [m \in OriginalIds |-> "SENT"]

\* ---------------------------------------------------------------------
\* Trigger evaluation (evaluateFollowUpTriggers, followUpAutomation.ts)
\* ---------------------------------------------------------------------

MessageStatuses ==
    {"draft", "approved", "pending", "sending", "sent", "delivered", "opened",
     "clicked", "replied", "bounced", "failed", "cancelled"}
FollowUpTriggers == {"unopened_after_days", "opened_no_reply", "clicked_no_reply", "bounced"}
NoSentAt == -1              \* message.sentAt is undefined
Hours == 0..MaxHours

\* FollowUpConfig.rules: up to MaxRules entries, repeated triggers allowed.
RuleConfigs == [trigger : FollowUpTriggers, delayHours : Hours, enabled : BOOLEAN]
Configs == UNION {[1..n -> RuleConfigs] : n \in 0..MaxRules}

\* One call: the message, the configuration and the value of Date.now().
EvalInputs ==
    [status : MessageStatuses, sentAt : {NoSentAt} \cup Hours,
     rules : Configs, now : Hours]
NoEvalInput == [status |-> "draft", sentAt |-> NoSentAt, rules |-> <<>>, now |-> 0]
NotEvaluated == [done |-> FALSE, triggers |-> <<>>]

\* config.rules.find(r => r.trigger === trigger && r.enabled): the index of
\* the first such rule, 0 for undefined.
FindRule(config, trigger) ==
    LET hits == {i \in DOMAIN config : config[i].trigger = trigger /\ config[i].enabled}
    IN IF hits = {} THEN 0 ELSE CHOOSE i \in hits : \A j \in hits : i <= j

\* The mutant of evaluateFollowUpTriggers for the delay: the elapsed time is
\* not compared with delayHours.
evaluateFollowUpTriggers_NoDelay(message, config, dateNow) ==
    (IF message.status = "opened" /\ FindRule(config, "opened_no_reply") # 0
     THEN <<"opened_no_reply">> ELSE <<>>)
    \o (IF message.status = "clicked" /\ FindRule(config, "clicked_no_reply") # 0
        THEN <<"clicked_no_reply">> ELSE <<>>)
    \o (IF /\ message.status \in {"sent", "delivered"}
           /\ message.sentAt # NoSentAt
           /\ FindRule(config, "unopened_after_days") # 0
        THEN <<"unopened_after_days">> ELSE <<>>)

\* The mutant of evaluateFollowUpTriggers for the engagement triggers:
\* opened_no_reply is tested against "has been opened", not the literal status.
evaluateFollowUpTriggers_Passed(message, config, dateNow) ==
    (IF /\ message.status \in {"opened", "clicked", "replied"}
        /\ FindRule(config, "opened_no_reply") # 0
     THEN <<"opened_no_reply">> ELSE <<>>)
    \o (IF message.status = "clicked" /\ FindRule(config, "clicked_no_reply") # 0
        THEN <<"clicked_no_reply">> ELSE <<>>)
    \o (IF /\ message.status \in {"sent", "delivered"}
           /\ message.sentAt # NoSentAt
           /\ FindRule(config, "unopened_after_days") # 0
           /\ dateNow - message.sentAt
                >= config[FindRule(config, "unopened_after_days")].delayHours
        THEN <<"unopened_after_days">> ELSE <<>>)

\* The mutant of evaluateFollowUpTriggers for the number of triggers: the
\* unopened rule is evaluated whatever the message's status.
evaluateFollowUpTriggers_AnyStatus(message, config, dateNow) ==
    (IF message.status = "opened" /\ FindRule(config, "opened_no_reply") # 0
     THEN <<"opened_no_reply">> ELSE <<>>)
    \o (IF message.status = "clicked" /\ FindRule(config, "clicked_no_reply") # 0
        THEN <<"clicked_no_reply">> ELSE <<>>)
    \o (IF /\ message.sentAt # NoSentAt
           /\ FindRule(config, "unopened_after_days") # 0
           /\ dateNow - message.sentAt
                >= config[FindRule(config, "unopened_after_days")].delayHours
        THEN <<"unopened_after_days">> ELSE <<>>)

\* evaluateFollowUpTriggers: the triggers pushed, in push order.
evaluateFollowUpTriggers(message, config, dateNow) ==
    LET currentStatus == message.status
        sentAt == message.sentAt
        isOpened == currentStatus \in {"opened", "clicked", "replied"}
        unopenedRule == FindRule(config, "unopened_after_days")
    IN (IF currentStatus = "opened" /\ FindRule(config, "opened_no_reply") # 0
        THEN <<"opened_no_reply">> ELSE <<>>)
       \o (IF currentStatus = "clicked" /\ FindRule(config, "clicked_no_reply") # 0
           THEN <<"clicked_no_reply">> ELSE <<>>)
       \o (IF /\ currentStatus \in {"sent", "delivered"}
              /\ sentAt # NoSentAt
              /\ ~isOpened
              /\ unopenedRule # 0
              /\ dateNow - sentAt >= config[unopenedRule].delayHours
           THEN <<"unopened_after_days">> ELSE <<>>)

\* The engine evaluates the message it was handed.
evaluate ==
    /\ ~evalTriggers.done
    /\ evalTriggers' =
         [done |-> TRUE,
          triggers |-> evaluateFollowUpTriggers(
                           [status |-> evalInput.status, sentAt |-> evalInput.sentAt],
                           evalInput.rules, evalInput.now)]
    /\ UNCHANGED <<evalInput, searchInput, searchOutput>>
    /\ UNCHANGED <<channelInput, channelOutput, orchestratorChannel, bulkInput, bulkRun>>
    /\ UNCHANGED <<templateInput, templateOutput, genInput, genOutput>>
    /\ UNCHANGED <<agentVars, pageVars, followVars>>

TriggerNext == evaluate

\* ---------------------------------------------------------------------
\* Target discovery (searchTargets, openaiClient)
\* ---------------------------------------------------------------------

ItemNames == {"", "Unknown", "Ann"}
ItemCompanies == {"", "Acme"}
ItemEmails == {"", "ann@acme.example"}

\* The items of the research answer once parsed into an array.
ParsedItems == [name : ItemNames, company : ItemCompanies, email : ItemEmails]
ParsedResults == UNION {[1..n -> ParsedItems] : n \in 0..MaxItems}

\* One call: params.count and the parsed answer.
SearchInputs == [count : -1..(MaxItems + 1), items : ParsedResults]
NoSearchInput == [count |-> 0, items |-> <<>>]
NotSearched == [outcome |-> "none", targets |-> <<>>]

\* The loop's test: a name other than 'Unknown' and a company.
Keeps(item) == item.name # "" /\ item.name # "Unknown" /\ item.company # ""

\* targets.push({...}): the TargetResult built from a kept item.
TargetResultOf(item) ==
    [name |-> item.name, company |-> item.company,
     email |-> IF item.email # "" THEN item.email ELSE "not found"]

\* The kept items as TargetResults, in answer order.
RECURSIVE Transform(_)
Transform(items) ==
    IF items = <<>> THEN <<>>
    ELSE (IF Keeps(Head(items)) THEN <<TargetResultOf(Head(items))>> ELSE <<>>)
         \o Transform(Tail(items))

\* Array.prototype.slice(0, end).
Slice(seq, end) ==
    LET last == IF end < 0 THEN Len(seq) + end
                ELSE IF end < Len(seq) THEN end ELSE Len(seq)
    IN IF last <= 0 THEN <<>> ELSE SubSeq(seq, 1, last)

\* searchTargets returns the kept items cut to params.count.
searchTargets_return ==
    /\ searchOutput.outcome = "none"
    /\ searchOutput' = [outcome |-> "returned",
                        targets |-> Slice(Transform(searchInput.items), searchInput.count)]
    /\ UNCHANGED <<evalInput, evalTriggers, searchInput>>
    /\ UNCHANGED <<channelInput, channelOutput, orchestratorChannel, bulkInput, bulkRun>>
    /\ UNCHANGED <<templateInput, templateOutput, genInput, genOutput>>
    /\ UNCHANGED <<agentVars, pageVars, followVars>>

\* searchTargets' catch blocks: the call threw or the answer was no array.
searchTargets_catch ==
    /\ searchOutput.outcome = "none"
    /\ searchOutput' = [outcome |-> "caught", targets |-> <<>>]
    /\ UNCHANGED <<evalInput, evalTriggers, searchInput>>
    /\ UNCHANGED <<channelInput, channelOutput, orchestratorChannel, bulkInput, bulkRun>>
    /\ UNCHANGED <<templateInput, templateOutput, genInput, genOutput>>
    /\ UNCHANGED <<agentVars, pageVars, followVars>>

SearchNext ==
    \/ searchTargets_return
    \/ searchTargets_catch

\* No pure function has been called.
\* ---------------------------------------------------------------------
\* Channel selection (channelSelector.ts)
\* ---------------------------------------------------------------------

TargetTypes == {"restaurant_owner", "hotel_owner", "startup_founder", "creator",
                "real_estate_broker", "business_owner", "professional", "generic"}
OutreachPurposes == {"partnership", "influencer_collaboration", "hiring", "brand_deal",
                     "referral", "sales", "networking", "general"}
OutreachChannels == {"email", "dm", "whatsapp", "generic"}
\* intent.location: absent, a place, a place whose lower-cased name has 'miami'.
Locations == {"", "Austin", "Miami"}

ChannelIntents ==
    [channel : OutreachChannels, targetType : TargetTypes,
     purpose : OutreachPurposes, location : Locations]
NoChannelInput == [channel |-> "", targetType |-> "", purpose |-> "", location |-> ""]
NotSelected == [selected |-> FALSE, channel |-> "", confidence |-> 0,
                alternatives |-> <<>>, sorted |-> <<>>]

\* The mutant of isCreatorTarget: no target type is a creator.
isCreatorTarget_Never(targetType) == FALSE

isCreatorTarget(targetType) == targetType = "creator"
isB2BTarget(targetType) ==
    targetType \in {"restaurant_owner", "hotel_owner", "real_estate_broker",
                    "business_owner", "startup_founder"}
isHiringPurpose(purpose) == purpose = "hiring"
isPartnershipPurpose(purpose) ==
    purpose \in {"partnership", "influencer_collaboration", "brand_deal"}
isWhatsAppAppropriate(intent) ==
    \/ intent.location = "Miami"
    \/ intent.targetType = "restaurant_owner" /\ intent.purpose = "partnership"

\* A recommendation; confidence in hundredths (0.85 is 85).
Recommendation(channel, confidence) == [channel |-> channel, confidence |-> confidence]

\* analyzeChannelFit: the recommendations in the order they are pushed.
analyzeChannelFit(intent) ==
    LET creator == IF isCreatorTarget(intent.targetType)
                   THEN <<Recommendation("dm", 85), Recommendation("email", 60)>>
                   ELSE <<>>
        b2b == IF isB2BTarget(intent.targetType)
               THEN <<Recommendation("email", 90)>> \o
                    (IF intent.targetType \in {"startup_founder", "professional"}
                     THEN <<Recommendation("dm", 70)>> ELSE <<>>)
               ELSE <<>>
        hiring == IF isHiringPurpose(intent.purpose)
                  THEN <<Recommendation("email", 95), Recommendation("dm", 50)>>
                  ELSE <<>>
        partnership == IF isPartnershipPurpose(intent.purpose)
                       THEN IF isCreatorTarget(intent.targetType)
                            THEN <<Recommendation("dm", 80)>>
                            ELSE <<Recommendation("email", 85)>>
                       ELSE <<>>
        location == IF intent.location # ""
                    THEN <<Recommendation("email", 80)>> ELSE <<>>
        whatsapp == IF isWhatsAppAppropriate(intent)
                    THEN <<Recommendation("whatsapp", 70)>> ELSE <<>>
        recommendations == creator \o b2b \o hiring \o partnership \o location \o whatsapp
    IN IF Len(recommendations) = 0
       THEN <<Recommendation("email", 70)>>
       ELSE recommendations

\* Insert r behind every element whose confidence is not lower (stable).
RECURSIVE InsertByConfidence(_, _)
InsertByConfidence(sorted, r) ==
    IF sorted = <<>> THEN <<r>>
    ELSE IF Head(sorted).confidence >= r.confidence
         THEN <<Head(sorted)>> \o InsertByConfidence(Tail(sorted), r)
         ELSE <<r>> \o sorted

\* The mutant of sortByConfidence: the recommendations as pushed.
sortByConfidence_AsPushed(recommendations) == recommendations

\* recommendations.sort((a, b) => b.confidence - a.confidence): descending
\* by confidence, equal confidences in their original order.
RECURSIVE sortByConfidence(_)
sortByConfidence(recommendations) ==
    IF recommendations = <<>> THEN <<>>
    ELSE InsertByConfidence(
             sortByConfidence(SubSeq(recommendations, 1, Len(recommendations) - 1)),
             recommendations[Len(recommendations)])

\* selectChannel: an explicit channel is returned as it is; otherwise the
\* first of the sorted recommendations, with the channels of the other
\* ones above 0.3 as alternatives. `sorted` is the local of that name.
selectChannel(intent) ==
    IF intent.channel # "generic"
    THEN [selected |-> TRUE, channel |-> intent.channel, confidence |-> 100,
          alternatives |-> <<>>, sorted |-> <<>>]
    ELSE LET sorted == sortByConfidence(analyzeChannelFit(intent))
             top == sorted[1]
             Alternative(r) == r.channel # top.channel /\ r.confidence > 30
             kept == SelectSeq(sorted, Alternative)
         IN [selected |-> TRUE, channel |-> top.channel, confidence |-> top.confidence,
             alternatives |-> [i \in 1..Len(kept) |-> kept[i].channel],
             sorted |-> sorted]

\* ---------------------------------------------------------------------
\* Bulk sending (sendBulkEmails)
\* ---------------------------------------------------------------------

\* What sendEmail does for a message: resolves with success, resolves
\* with an error result, or throws.
SendOutcomes == {"success", "error", "throws"}
\* options.onProgress: absent, returns, or throws.
ProgressCallbacks == {"none", "returns", "throws"}

RECURSIVE Batches(_)
Batches(n) ==
    IF n = 0 THEN {<<>>}
    ELSE Batches(n - 1) \cup [1..n -> SendOutcomes]
BulkInputs == [messages : Batches(MaxBatch), onProgress : ProgressCallbacks]
NoBulkInput == [messages |-> <<>>, onProgress |-> "none"]
NotStarted == [pc |-> "idle", i |-> 0, sent |-> 0, failed |-> 0, results |-> <<>>,
               attempts |-> <<>>, thrownBy |-> ""]

\* selectChannel is called with the intent.
selectChannel_call ==
    /\ ~channelOutput.selected
    /\ channelOutput' = selectChannel(channelInput)
    /\ UNCHANGED <<evalInput, evalTriggers, searchInput, searchOutput>>
    /\ UNCHANGED <<channelInput, orchestratorChannel, bulkInput, bulkRun>>
    /\ UNCHANGED <<templateInput, templateOutput, genInput, genOutput>>
    /\ UNCHANGED <<agentVars, pageVars, followVars>>

\* The orchestrator's selectChannel (orchestrator.ts), decided by the
\* purpose alone.
orchestrator_selectChannel(intent) ==
    IF intent.purpose = "influencer_collaboration" \/ intent.purpose = "brand_deal"
    THEN [channel |-> "dm", confidence |-> 80]
    ELSE IF intent.purpose = "hiring"
         THEN [channel |-> "email", confidence |-> 90]
         ELSE [channel |-> "email", confidence |-> 70]

\* parseInputNode calls the orchestrator's selectChannel with the intent.
orchestrator_selectChannel_call ==
    /\ orchestratorChannel = ""
    /\ orchestratorChannel' = orchestrator_selectChannel(channelInput).channel
    /\ UNCHANGED <<evalInput, evalTriggers, searchInput, searchOutput>>
    /\ UNCHANGED <<channelInput, channelOutput, bulkInput, bulkRun>>
    /\ UNCHANGED <<templateInput, templateOutput, genInput, genOutput>>
    /\ UNCHANGED <<agentVars, pageVars, followVars>>

ChannelNext ==
    \/ selectChannel_call
    \/ orchestrator_selectChannel_call

\* sendBulkEmails is called: results = {sent: 0, failed: 0, results: []}.
sendBulkEmails_call ==
    /\ bulkRun.pc = "idle"
    /\ bulkRun' = [bulkRun EXCEPT !.pc = "loop"]
    /\ UNCHANGED <<evalInput, evalTriggers, searchInput, searchOutput>>
    /\ UNCHANGED <<channelInput, channelOutput, orchestratorChannel, bulkInput>>
    /\ UNCHANGED <<templateInput, templateOutput, genInput, genOutput>>
    /\ UNCHANGED <<agentVars, pageVars, followVars>>

\* The mutant of sendBulkEmails_send: the loop body without its catch
\* block; an exception thrown by sendEmail leaves the function.
sendBulkEmails_send_NoCatch ==
    /\ bulkRun.pc = "loop"
    /\ bulkRun.i < Len(bulkInput.messages)
    /\ LET k == bulkRun.i + 1
           outcome == bulkInput.messages[k]
       IN bulkRun' =
            IF outcome = "throws"
            THEN [bulkRun EXCEPT !.attempts = Append(@, k), !.pc = "rejected",
                                 !.thrownBy = "sendEmail"]
            ELSE [bulkRun EXCEPT
                    !.attempts = Append(@, k),
                    !.sent = IF outcome = "success" THEN @ + 1 ELSE @,
                    !.failed = IF outcome = "success" THEN @ ELSE @ + 1,
                    !.results = Append(@, [message |-> k, success |-> outcome = "success"]),
                    !.pc = "progress"]
    /\ UNCHANGED <<evalInput, evalTriggers, searchInput, searchOutput>>
    /\ UNCHANGED <<channelInput, channelOutput, orchestratorChannel, bulkInput>>
    /\ UNCHANGED <<templateInput, templateOutput, genInput, genOutput>>
    /\ UNCHANGED <<agentVars, pageVars, followVars>>

\* The try/catch of one iteration: sendEmail is awaited for messages[i];
\* a success counts as sent, an error result or an exception as failed,
\* and each pushes one entry to results.
sendBulkEmails_send ==
    /\ bulkRun.pc = "loop"
    /\ bulkRun.i < Len(bulkInput.messages)
    /\ LET k == bulkRun.i + 1
           outcome == bulkInput.messages[k]
       IN bulkRun' =
            [bulkRun EXCEPT
               !.attempts = Append(@, k),
               !.sent = IF outcome = "success" THEN @ + 1 ELSE @,
               !.failed = IF outcome = "success" THEN @ ELSE @ + 1,
               !.results = Append(@, [message |-> k, success |-> outcome = "success"]),
               !.pc = "progress"]
    /\ UNCHANGED <<evalInput, evalTriggers, searchInput, searchOutput>>
    /\ UNCHANGED <<channelInput, channelOutput, orchestratorChannel, bulkInput>>
    /\ UNCHANGED <<templateInput, templateOutput, genInput, genOutput>>
    /\ UNCHANGED <<agentVars, pageVars, followVars>>

\* The rest of the iteration, outside the try: options.onProgress is
\* called if present (an exception it throws leaves the function), the
\* delay is awaited, i++.
sendBulkEmails_onProgress ==
    /\ bulkRun.pc = "progress"
    /\ bulkRun' =
         IF bulkInput.onProgress = "throws"
         THEN [bulkRun EXCEPT !.pc = "rejected", !.thrownBy = "onProgress"]
         ELSE [bulkRun EXCEPT !.pc = "loop", !.i = @ + 1]
    /\ UNCHANGED <<evalInput, evalTriggers, searchInput, searchOutput>>
    /\ UNCHANGED <<channelInput, channelOutput, orchestratorChannel, bulkInput>>
    /\ UNCHANGED <<templateInput, templateOutput, genInput, genOutput>>
    /\ UNCHANGED <<agentVars, pageVars, followVars>>

\* i = messages.length: return results.
sendBulkEmails_return ==
    /\ bulkRun.pc = "loop"
    /\ bulkRun.i = Len(bulkInput.messages)
    /\ bulkRun' = [bulkRun EXCEPT !.pc = "returned"]
    /\ UNCHANGED <<evalInput, evalTriggers, searchInput, searchOutput>>
    /\ UNCHANGED <<channelInput, channelOutput, orchestratorChannel, bulkInput>>
    /\ UNCHANGED <<templateInput, templateOutput, genInput, genOutput>>
    /\ UNCHANGED <<agentVars, pageVars, followVars>>

BulkNext ==
    \/ sendBulkEmails_call
    \/ sendBulkEmails_send
    \/ sendBulkEmails_onProgress
    \/ sendBulkEmails_return

\* ---------------------------------------------------------------------
\* Templates: selection and rendering (generateMessage)
\* ---------------------------------------------------------------------

\* getTemplatesForChannel: the shipped templates in their order, each with
\* the {{placeholders}} of its body.
getTemplatesForChannel ==
    << [id |-> "partnership_b2b", targetType |-> "business_owner", purpose |-> "partnership",
        placeholders |-> {"name", "company", "personalization_hook", "sender_name",
                          "sender_company", "value_proposition", "sender_title",
                          "sender_website"}],
       [id |-> "partnership_creator", targetType |-> "creator", purpose |-> "partnership",
        placeholders |-> {"name", "recent_post_reference", "sender_name", "sender_company",
                          "value_proposition"}],
       [id |-> "influencer_collab", targetType |-> "creator",
        purpose |-> "influencer_collaboration",
        placeholders |-> {"name", "niche", "specific_content_reference", "sender_name",
                          "sender_company", "campaign_description",
                          "collaboration_details"}],
       [id |-> "hiring_founder", targetType |-> "startup_founder", purpose |-> "hiring",
        placeholders |-> {"name", "company", "role", "job_description", "why_interesting",
                          "sender_name", "sender_title", "sender_company"}],
       [id |-> "brand_deal", targetType |-> "creator", purpose |-> "brand_deal",
        placeholders |-> {"name", "niche", "specific_content", "compliment",
                          "deal_description", "deal_details", "sender_name",
                          "sender_company"}],
       [id |-> "referral_realtor", targetType |-> "real_estate_broker", purpose |-> "referral",
        placeholders |-> {"name", "location", "service_type", "specialization",
                          "success_metric", "sender_name", "sender_company",
                          "sender_phone"}],
       [id |-> "generic_professional", targetType |-> "generic", purpose |-> "general",
        placeholders |-> {"name", "purpose_description", "sender_company",
                          "company_description", "specific_value", "sender_name",
                          "sender_website"}],
       [id |-> "generic_casual", targetType |-> "generic", purpose |-> "general",
        placeholders |-> {"name", "sender_name", "sender_company", "context_hook",
                          "value_prop"}] >>

\* The first index of a non-empty set of template indexes.
First(indexes) == CHOOSE i \in indexes : \A j \in indexes : i <= j

\* The templates of the list for one (targetType, purpose).
Matching(templates, targetType, purpose) ==
    {i \in DOMAIN templates :
        templates[i].targetType = targetType /\ templates[i].purpose = purpose}

\* The mutant of selectTemplate: the fallback takes the last generic template.
selectTemplate_LastGeneric(intent) ==
    LET templates == getTemplatesForChannel
        matching == Matching(templates, intent.targetType, intent.purpose)
        generic == Matching(templates, "generic", "general")
    IN IF matching # {} THEN First(matching)
       ELSE IF generic # {} THEN CHOOSE i \in generic : \A j \in generic : i >= j
            ELSE 1

\* selectTemplate: the first template matching the intent's target type
\* and purpose, else the first (generic, general) one, else templates[0].
selectTemplate(intent) ==
    LET templates == getTemplatesForChannel
        matching == Matching(templates, intent.targetType, intent.purpose)
        generic == Matching(templates, "generic", "general")
    IN IF matching # {} THEN First(matching)
       ELSE IF generic # {} THEN First(generic)
            ELSE 1

\* The placeholders renderTemplate replaces for an intent: the ones it
\* always replaces and the ones it replaces for the intent's purpose.
Replaced(intent) ==
    {"name", "company", "title", "location", "niche",
     "sender_name", "sender_company", "sender_website", "sender_title", "sender_phone",
     "purpose_description", "personalization_hook", "recent_post_reference",
     "specific_content_reference", "compliment", "context_hook", "value_prop",
     "value_proposition", "company_description", "specific_value"}
    \cup (IF intent.purpose = "hiring"
          THEN {"role", "job_description", "why_interesting"} ELSE {})
    \cup (IF intent.purpose = "influencer_collaboration"
          THEN {"campaign_description", "collaboration_details"} ELSE {})
    \cup (IF intent.purpose = "brand_deal"
          THEN {"deal_description", "deal_details"} ELSE {})
    \cup (IF intent.purpose = "referral"
          THEN {"service_type", "specialization", "success_metric"} ELSE {})

\* renderTemplate: the placeholders still in the body it returns.
renderTemplate(template, intent) == template.placeholders \ Replaced(intent)

\* rule.message as generateFollowUpMessage may find it: a text of the
\* user's without placeholder, or no body (the built-in text is used).
RuleBodies == {"plain", "absent"}
\* 'Hi {{name}}, I wanted to follow up.'
DefaultFollowUpBody == {"name"}

TemplateInputs == [targetType : TargetTypes, purpose : OutreachPurposes, ruleBody : RuleBodies]
NoTemplateInput == [targetType |-> "", purpose |-> "", ruleBody |-> ""]
NotGenerated == [done |-> FALSE, by |-> "", template |-> 0, unresolved |-> {}]

\* generateMessage: the template is selected for the intent and rendered.
generateMessage_call ==
    /\ ~templateOutput.done
    /\ LET template == selectTemplate(templateInput)
       IN templateOutput' =
            [done |-> TRUE, by |-> "generateMessage", template |-> template,
             unresolved |-> renderTemplate(getTemplatesForChannel[template], templateInput)]
    /\ UNCHANGED <<evalInput, evalTriggers, searchInput, searchOutput>>
    /\ UNCHANGED <<channelInput, channelOutput, orchestratorChannel, bulkInput, bulkRun>>
    /\ UNCHANGED <<templateInput, genInput, genOutput>>
    /\ UNCHANGED <<agentVars, pageVars, followVars>>

\* generateFollowUpMessage: the body is the rule's text, or the built-in
\* one, as it is.
generateFollowUpMessage_call ==
    /\ ~templateOutput.done
    /\ templateOutput' =
         [done |-> TRUE, by |-> "generateFollowUpMessage", template |-> 0,
          unresolved |-> IF templateInput.ruleBody = "absent"
                         THEN DefaultFollowUpBody ELSE {}]
    /\ UNCHANGED <<evalInput, evalTriggers, searchInput, searchOutput>>
    /\ UNCHANGED <<channelInput, channelOutput, orchestratorChannel, bulkInput, bulkRun>>
    /\ UNCHANGED <<templateInput, genInput, genOutput>>
    /\ UNCHANGED <<agentVars, pageVars, followVars>>

TemplateNext ==
    \/ generateMessage_call
    \/ generateFollowUpMessage_call

\* ---------------------------------------------------------------------
\* Batch generation (generateBulkEmails, generateBatchMessages)
\* ---------------------------------------------------------------------

\* A target of the batch: whether it has a name, and whether the
\* completion requested for it is answered or fails.
GenTargets == [hasName : BOOLEAN, outcome : {"answered", "failed"}]
RECURSIVE TargetLists(_)
TargetLists(n) ==
    IF n = 0 THEN {<<>>}
    ELSE TargetLists(n - 1) \cup [1..n -> GenTargets]
GenPurposes == {"influencer_collaboration", "general"}
GenInputs == [targets : TargetLists(MaxBatch), purpose : GenPurposes]
NoGenInput == [targets |-> <<>>, purpose |-> ""]
NotGeneratedBatch == [done |-> FALSE, by |-> "", messages |-> <<>>]

\* How a text names the target: `${target.name}` of a target with a name
\* is the name and of one without is the text 'undefined'.
Interpolate(target) == IF target.hasName THEN "name" ELSE "undefined"

\* generateEmail: the answer's body as the model wrote it, or, from the
\* catch block, `Hi ${params.target.name},\n\nI'd love to connect.\n\nBest`.
generateEmail(target) ==
    IF target.outcome = "answered"
    THEN [salutation |-> "answer", subjectName |-> ""]
    ELSE [salutation |-> Interpolate(target), subjectName |-> ""]

\* generateBulkEmails: one email per target, in the targets' order.
generateBulkEmails(targetList) ==
    [i \in DOMAIN targetList |-> generateEmail(targetList[i])]

\* generateMessage for one target: renderTemplate greets target.name ||
\* 'there'; generateSubjectLine names the target for
\* influencer_collaboration only.
generateMessage(purpose, target) ==
    [salutation |-> IF target.hasName THEN "name" ELSE "there",
     subjectName |-> IF purpose = "influencer_collaboration"
                     THEN Interpolate(target) ELSE ""]

\* generateBatchMessages: targets.map(target => generateMessage(...)).
generateBatchMessages(purpose, targetList) ==
    [i \in DOMAIN targetList |-> generateMessage(purpose, targetList[i])]

generateBulkEmails_call ==
    /\ ~genOutput.done
    /\ genOutput' = [done |-> TRUE, by |-> "generateBulkEmails",
                     messages |-> generateBulkEmails(genInput.targets)]
    /\ UNCHANGED <<evalInput, evalTriggers, searchInput, searchOutput>>
    /\ UNCHANGED <<channelInput, channelOutput, orchestratorChannel, bulkInput, bulkRun>>
    /\ UNCHANGED <<templateInput, templateOutput, genInput>>
    /\ UNCHANGED <<agentVars, pageVars, followVars>>

generateBatchMessages_call ==
    /\ ~genOutput.done
    /\ genOutput' = [done |-> TRUE, by |-> "generateBatchMessages",
                     messages |-> generateBatchMessages(genInput.purpose, genInput.targets)]
    /\ UNCHANGED <<evalInput, evalTriggers, searchInput, searchOutput>>
    /\ UNCHANGED <<channelInput, channelOutput, orchestratorChannel, bulkInput, bulkRun>>
    /\ UNCHANGED <<templateInput, templateOutput, genInput>>
    /\ UNCHANGED <<agentVars, pageVars, followVars>>

GenNext ==
    \/ generateBulkEmails_call
    \/ generateBatchMessages_call

TextIdle ==
    /\ templateInput = NoTemplateInput
    /\ templateOutput = NotGenerated
    /\ genInput = NoGenInput
    /\ genOutput = NotGeneratedBatch

ChannelIdle ==
    /\ channelInput = NoChannelInput
    /\ channelOutput = NotSelected
    /\ orchestratorChannel = ""
BulkIdle == bulkInput = NoBulkInput /\ bulkRun = NotStarted

CallInit ==
    /\ evalInput = NoEvalInput
    /\ evalTriggers = NotEvaluated
    /\ searchInput = NoSearchInput
    /\ searchOutput = NotSearched
    /\ ChannelIdle /\ BulkIdle /\ TextIdle

Init == AgentInit /\ PageInit /\ FollowInit /\ CallInit

\* Every message and configuration the trigger engine may be handed.
TriggerInit ==
    /\ AgentInit /\ PageInit /\ FollowInit
    /\ evalInput \in EvalInputs
    /\ evalTriggers = NotEvaluated
    /\ searchInput = NoSearchInput
    /\ searchOutput = NotSearched
    /\ ChannelIdle /\ BulkIdle /\ TextIdle

\* Every count and parsed answer searchTargets may work on.
SearchInit ==
    /\ AgentInit /\ PageInit /\ FollowInit
    /\ evalInput = NoEvalInput
    /\ evalTriggers = NotEvaluated
    /\ searchInput \in SearchInputs
    /\ searchOutput = NotSearched
    /\ ChannelIdle /\ BulkIdle /\ TextIdle

\* Every intent selectChannel may be handed.
ChannelInit ==
    /\ AgentInit /\ PageInit /\ FollowInit
    /\ evalInput = NoEvalInput
    /\ evalTriggers = NotEvaluated
    /\ searchInput = NoSearchInput
    /\ searchOutput = NotSearched
    /\ channelInput \in ChannelIntents
    /\ channelOutput = NotSelected
    /\ orchestratorChannel = ""
    /\ BulkIdle /\ TextIdle

\* Every batch and progress callback sendBulkEmails may be handed.
BulkInit ==
    /\ AgentInit /\ PageInit /\ FollowInit
    /\ evalInput = NoEvalInput
    /\ evalTriggers = NotEvaluated
    /\ searchInput = NoSearchInput
    /\ searchOutput = NotSearched
    /\ ChannelIdle
    /\ bulkInput \in BulkInputs
    /\ bulkRun = NotStarted
    /\ TextIdle

\* Every intent and follow-up rule a message may be generated for.
TemplateInit ==
    /\ AgentInit /\ PageInit /\ FollowInit
    /\ evalInput = NoEvalInput
    /\ evalTriggers = NotEvaluated
    /\ searchInput = NoSearchInput
    /\ searchOutput = NotSearched
    /\ ChannelIdle /\ BulkIdle
    /\ templateInput \in TemplateInputs
    /\ templateOutput = NotGenerated
    /\ genInput = NoGenInput
    /\ genOutput = NotGeneratedBatch

\* Every target list and purpose a batch may be generated for.
GenInit ==
    /\ AgentInit /\ PageInit /\ FollowInit
    /\ evalInput = NoEvalInput
    /\ evalTriggers = NotEvaluated
    /\ searchInput = NoSearchInput
    /\ searchOutput = NotSearched
    /\ ChannelIdle /\ BulkIdle
    /\ templateInput = NoTemplateInput
    /\ templateOutput = NotGenerated
    /\ genInput \in GenInputs
    /\ genOutput = NotGeneratedBatch

\* The trigger engine.
SpecTriggers == TriggerInit /\ [][TriggerNext]_vars

\* Target discovery.
SpecSearch == SearchInit /\ [][SearchNext]_vars

\* Channel selection.
SpecChannel == ChannelInit /\ [][ChannelNext]_vars

\* Bulk sending.
SpecBulkSend == BulkInit /\ [][BulkNext]_vars

\* Template selection and rendering.
SpecTemplates == TemplateInit /\ [][TemplateNext]_vars

\* Batch generation.
SpecGenerate == GenInit /\ [][GenNext]_vars

\* The follow-up engine with overlapping ticks.
SpecFollowUp == Init /\ [][FollowNext]_vars

\* The follow-up engine with replies arriving.
SpecFollowUpReplies == Init /\ [][FollowNextReplies]_vars

\* The follow-up engine with ticks in sequence.
SpecFollowUpSeq == Init /\ [][FollowNextSeq]_vars

\* The orchestration pipeline and its command surface.
SpecAgent == Init /\ [][AgentNext]_vars

\* The steps runAgent and POST take by themselves. A step that resumes an
\* await on a collaborator (the classifier, discovery, a generateEmail
\* call, the record store) is taken when the collaborator settles the
\* promise: no timer in runAgent or in the OpenAI client settles it otherwise.
OwnSteps ==
    \/ runAgent_notify
    \/ runAgent_notifyThrows
    \/ runAgent_generateBulkEmails
    \/ generateBulkEmails_return
    \/ runAgent_returnSuccess
    \/ runAgent_catch
    \/ POST_respond
SpecAgentLive == Init /\ [][AgentNext]_vars /\ WF_vars(OwnSteps)

\* The campaign page.
SpecPage == Init /\ [][PageNext]_vars

\* ---------------------------------------------------------------------
\* Properties of the orchestration pipeline
\* ---------------------------------------------------------------------

\* C1: once discovery has returned zero targets, runAgent has returned
\* success=false with the "No targets found" error, the result carries no
\* campaign, and nothing was handed to saveCampaignToDatabase.
C1_NoTargetsNoCampaign ==
    targets = 0 =>
        /\ agentPc = "returned"
        /\ result.returned
        /\ ~result.success
        /\ result.stage = "no_targets"
        /\ result.error = NoTargetsError
        /\ result.campaign = NoCampaign
        /\ saveCalls = 0

\* A run in which discovery came back empty has returned.
C1_Witness == targets = 0 /\ agentPc = "returned" /\ result.returned

\* C2: a response to a run whose discovery returned an empty list carries
\* the code NO_TARGETS_FOUND.
C2_NoTargetsCode ==
    (response.status # 0 /\ caller = "route" /\ targets = 0) =>
        response.code = "NO_TARGETS_FOUND"

\* ---------------------------------------------------------------------
\* Properties of the approval handlers
\* ---------------------------------------------------------------------

\* The position of a status in the approval state machine; the terminal
\* states failed and bounced sit where the machine reaches them.
Rank(s) ==
    CASE s = "draft" -> 0
      [] s = "approved" -> 1
      [] s = "sending" -> 2
      [] s \in {"sent", "failed"} -> 3
      [] s = "delivered" -> 4
      [] s = "opened" -> 5
      [] s = "clicked" -> 6
      [] s = "replied" -> 7
      [] OTHER -> 8

\* A step that keeps the same campaign on screen.
SameCampaign == step # "input" /\ step' # "input"

\* C3: the stored stats equal the stats recomputed from the messages.
C3_StatsPurity == stats = RecomputeStats(messages, stats.totalTargets)

\* C4: no handler moves a message of the campaign to an earlier state of
\* the approval state machine.
C4_NeverBackward ==
    [][SameCampaign =>
         \A i \in DOMAIN messages :
            Rank(messages'[i].status) >= Rank(messages[i].status)]_vars

\* C5: a message that was rejected (status failed) keeps that status under
\* every later single or bulk operation.
C5_RejectedIsTerminal ==
    [][SameCampaign =>
         \A i \in DOMAIN messages :
            messages[i].status = "failed" => messages'[i].status = "failed"]_vars

\* C6: approveAll changes only draft messages and sendAll changes only
\* approved messages, so a message becomes sent only from approved.
C6_BulkOnlyEligible ==
    [][/\ handleApproveAll =>
            \A i \in DOMAIN messages :
               messages[i].status # "draft" => messages'[i] = messages[i]
       /\ (handleSend_finish /\ lastCall.op = "sendAll") =>
            \A i \in DOMAIN messages :
               messages[i].status # "approved" => messages'[i] = messages[i]]_vars

\* C7 as stated: after an edit the message carries the new body and is
\* still in draft.
C7_EditLeavesDraft ==
    lastCall.op = "edit" =>
        /\ messages[lastCall.id].body = lastCall.content
        /\ messages[lastCall.id].status = "draft"

\* C7 as amended: after an edit of a draft message (Save & Approve) the
\* message carries the new body and is approved.
C7_EditSavesAndApproves ==
    lastCall.op = "edit" =>
        messages[lastCall.id] = [status |-> "approved", body |-> lastCall.content]

\* A draft message was edited to a body other than the generated one.
C7_Witness ==
    /\ lastCall.op = "edit"
    /\ lastCall.content # 0
    /\ messages[lastCall.id].body = lastCall.content

\* ---------------------------------------------------------------------
\* Properties of the follow-up engine
\* ---------------------------------------------------------------------

\* C8: no follow-up action is sent twice and none has two SENT/FAILED
\* transitions recorded, whatever the interleaving of the two ticks.
C8_NoDoubleSend ==
    \A a \in DOMAIN actions : sends[a] <= 1 /\ transitions[a] <= 1

C10_AttemptCap ==
    \A r \in RuleIds, m \in OriginalIds :
       rules[r].present => Cardinality(ActionsFor(r, m)) <= rules[r].maxAttempts

\* The FAILED rows of one (rule, original message) pair.
FailedFor(r, m) == {a \in ActionsFor(r, m) : actions[a].status = "FAILED"}

\* C11: once as many attempts of a (rule, original message) pair have
\* failed as the rule's maxAttempts allows, the rule is marked completed.
C11_ExhaustedMarksCompleted ==
    \A r \in RuleIds, m \in OriginalIds :
       (rules[r].present /\ Cardinality(FailedFor(r, m)) >= rules[r].maxAttempts)
          => rules[r].status = "COMPLETED"

\* ---------------------------------------------------------------------
\* Properties of the trigger engine
\* ---------------------------------------------------------------------

\* The evaluation returned trigger t.
Fires(t) == \E i \in DOMAIN evalTriggers.triggers : evalTriggers.triggers[i] = t

\* The configuration has an enabled rule for trigger t.
Active(t) == FindRule(evalInput.rules, t) # 0

\* C12: the unopened trigger (unopened_after_days in the code) fires iff
\* the message is sent or delivered, has a sentAt, and at least delayHours
\* of the enabled unopened rule have passed since; so it never fires for a
\* message that is opened, clicked or replied.
C12_UnopenedAfterHours ==
    evalTriggers.done =>
       (Fires("unopened_after_days") <=>
          /\ Active("unopened_after_days")
          /\ evalInput.status \in {"sent", "delivered"}
          /\ evalInput.sentAt # NoSentAt
          /\ evalInput.now - evalInput.sentAt
               >= evalInput.rules[FindRule(evalInput.rules, "unopened_after_days")].delayHours)

\* A message sent long enough ago has reached opened: with both rules
\* enabled the evaluation returns opened_no_reply alone.
C12_Witness ==
    /\ evalTriggers.done
    /\ evalInput.status = "opened"
    /\ evalInput.sentAt # NoSentAt
    /\ Active("opened_no_reply")
    /\ Active("unopened_after_days")
    /\ evalInput.now - evalInput.sentAt
         >= evalInput.rules[FindRule(evalInput.rules, "unopened_after_days")].delayHours
    /\ evalTriggers.triggers = <<"opened_no_reply">>

\* C13: opened_no_reply fires iff its rule is enabled and the status is
\* literally opened; clicked_no_reply fires iff its rule is enabled and the
\* status is literally clicked.
C13_EngagementTriggers ==
    evalTriggers.done =>
       /\ Fires("opened_no_reply") <=>
             (Active("opened_no_reply") /\ evalInput.status = "opened")
       /\ Fires("clicked_no_reply") <=>
             (Active("clicked_no_reply") /\ evalInput.status = "clicked")

\* A replied message with both engagement rules enabled fires neither.
C13_Witness ==
    /\ evalTriggers.done
    /\ evalInput.status = "replied"
    /\ Active("opened_no_reply")
    /\ Active("clicked_no_reply")
    /\ ~Fires("opened_no_reply")
    /\ ~Fires("clicked_no_reply")

\* C14: with an enabled bounced rule, the bounced trigger fires iff the
\* message status is bounced.
C14_BouncedFires ==
    (evalTriggers.done /\ Active("bounced")) =>
       (Fires("bounced") <=> evalInput.status = "bounced")

\* ---------------------------------------------------------------------
\* Properties of the progress events and stages of a run
\* ---------------------------------------------------------------------

\* C15: the progress values delivered to the observer lie in 0..100 and
\* never decrease.
C15_ProgressMonotone ==
    \A i \in DOMAIN events :
       /\ events[i].progress \in 0..100
       /\ i > 1 => events[i - 1].progress <= events[i].progress

\* The pipeline stage a position of runAgent belongs to, numbered in the
\* order classifying (1), selecting_channel (2), discovering (3),
\* generating (4), assembling (5), ready (6); failed is 7, no run is 0.
PipelineStage(pc, res) ==
    CASE pc = "idle" -> 0
      [] pc \in {"notify_started", "notify_parsing", "parseIntent",
                 "notify_intent_parsed"} -> 1
      [] pc \in {"notify_searching", "searchTargets", "notify_targets_found"} -> 3
      [] pc \in {"notify_generating", "generateBulkEmails"} -> 4
      [] pc = "saveCampaignToDatabase" -> 5
      [] pc \in {"notify_complete", "return_success"} -> 6
      [] pc = "returned" /\ res.success -> 6
      [] OTHER -> 7

\* C16: a run moves from a stage to the same stage, the next stage of the
\* fixed order, or failed; nothing follows failed.
C16_FixedStageOrder ==
    [][LET from == PipelineStage(agentPc, result)
           to == PipelineStage(agentPc', result')
       IN /\ to \in {from, from + 1, 7}
          /\ from = 7 => to = 7]_vars

\* C17: when a run with an observer has returned, the last event delivered
\* is the completion event iff it returned success, and the failure event
\* iff it returned failure.
C17_LastEventTellsOutcome ==
    (agentPc = "returned" /\ observer # "none") =>
       /\ events # <<>>
       /\ events[Len(events)].stage = "complete" <=> result.success
       /\ events[Len(events)].stage = "error" <=> ~result.success

\* C18: the Campaign of a successful run carries a resolved channel in its
\* intent, its settings and its messages; for restaurant_owner, partnership
\* and 3 targets it has 3 targets, 3 draft messages and channel email.
C18_CampaignChannelResolved ==
    (agentPc = "returned" /\ result.success) =>
       /\ result.campaign.intentChannel \in {"email", "dm", "whatsapp"}
       /\ result.campaign.settingsChannel \in {"email", "dm", "whatsapp"}
       /\ result.campaign.messageChannel \in {"email", "dm", "whatsapp"}
       /\ (/\ intentResult.targetType = "restaurant_owner"
           /\ intentResult.purpose = "partnership"
           /\ intentResult.channel \in {"generic", "email"}
           /\ targets = 3)
          => /\ result.campaign.targets = 3
             /\ result.campaign.messages = 3
             /\ result.campaign.messageStatus = "draft"
             /\ result.campaign.intentChannel = "email"

\* C19: the count of a successfully parsed intent, which is the count
\* handed to discovery, lies in 1..100.
C19_CountClamped ==
    intentResult.success => intentResult.count \in 1..100

\* ---------------------------------------------------------------------
\* Properties of target discovery
\* ---------------------------------------------------------------------

\* A non-empty name and a company or a contact address.
WellFormed(item) == item.name # "" /\ (item.company # "" \/ item.email # "")

\* The well-formed items of a parsed answer, in answer order.
RECURSIVE WellFormedOf(_)
WellFormedOf(items) ==
    IF items = <<>> THEN <<>>
    ELSE (IF WellFormed(Head(items)) THEN <<Head(items)>> ELSE <<>>)
         \o WellFormedOf(Tail(items))

\* C20: for a count of at least 1, searchTargets returns at most count
\* targets, and they are the well-formed items of the answer (cut to
\* count), no other item and none of them missing.
C20_KeepsWellFormed ==
    (searchOutput.outcome = "returned" /\ searchInput.count >= 1) =>
       LET expected == Slice(WellFormedOf(searchInput.items), searchInput.count)
       IN /\ Len(searchOutput.targets) <= searchInput.count
          /\ Len(searchOutput.targets) = Len(expected)
          /\ \A i \in DOMAIN expected :
                /\ searchOutput.targets[i].name = expected[i].name
                /\ searchOutput.targets[i].company = expected[i].company

\* C39: one evaluation returns at most one trigger (so no trigger twice),
\* and none for a message in draft, approved, sending, replied, bounced
\* or failed.
C39_AtMostOneTrigger ==
    evalTriggers.done =>
       /\ Len(evalTriggers.triggers) <= 1
       /\ evalInput.status \in {"draft", "approved", "sending", "replied", "bounced", "failed"}
             => evalTriggers.triggers = <<>>

\* C39 witness: an opened message, sent long enough ago for the enabled
\* unopened rule, evaluated with the opened rule enabled too.
C39_Witness ==
    /\ evalTriggers.done
    /\ evalInput.status = "opened"
    /\ evalTriggers.triggers = <<"opened_no_reply">>
    /\ evalInput.sentAt # NoSentAt
    /\ FindRule(evalInput.rules, "unopened_after_days") # 0
    /\ evalInput.now - evalInput.sentAt
          >= evalInput.rules[FindRule(evalInput.rules, "unopened_after_days")].delayHours

\* ---------------------------------------------------------------------
\* Properties of the pipeline's collaborators
\* ---------------------------------------------------------------------

\* C21: a run whose discovery failed (searchTargets ended in a catch
\* block) does not end with the outcome of a run whose discovery found
\* nothing: neither the 'No targets found' error nor the no_targets stage.
C21_FailureDistinct ==
    (agentPc = "returned" /\ discovery = "caught") =>
       (result.error # NoTargetsError /\ result.stage # "no_targets")

\* The classifier's answer misses a field parseIntent's result is built from.
MissingField(answer) ==
    \/ answer.target_type = ""
    \/ answer.purpose = ""
    \/ answer.channel = ""

\* C22: parseIntent reports success only for an answer that has every
\* field; an answer missing one, like a classifier that threw, gives
\* success = false.
C22_NoDefaultFilledSuccess ==
    /\ classified.kind = "threw" => ~intentResult.success
    /\ (classified.kind = "answered" /\ MissingField(classified.answer)) =>
          ~intentResult.success

\* C23: for an intent with an unset channel, the confidence of the channel
\* selectChannel returns is not lower than the confidence of any
\* recommendation whose channel is an entry of alternatives.
C23_TopNotBelowAlternatives ==
    (channelOutput.selected /\ channelInput.channel = "generic") =>
       \A i \in DOMAIN channelOutput.alternatives :
          \A k \in DOMAIN channelOutput.sorted :
             channelOutput.sorted[k].channel = channelOutput.alternatives[i] =>
                channelOutput.confidence >= channelOutput.sorted[k].confidence

\* C23 witness: a selection for an unset channel whose alternatives name a
\* channel recommended more than once.
C23_Witness ==
    /\ channelOutput.selected
    /\ channelInput.channel = "generic"
    /\ Len(channelOutput.alternatives) >= 2
    /\ channelOutput.channel = "dm"

\* The entries of a sequence are pairwise different.
Distinct(seq) == \A i, j \in DOMAIN seq : i # j => seq[i] # seq[j]

\* C31: for an unset channel, alternatives are the other channels with a
\* recommendation above 0.3, each of them once: never the selected
\* channel, never a channel twice.
C31_AlternativesDistinct ==
    (channelOutput.selected /\ channelInput.channel = "generic") =>
       /\ \A i \in DOMAIN channelOutput.alternatives :
             channelOutput.alternatives[i] # channelOutput.channel
       /\ Distinct(channelOutput.alternatives)
       /\ \A k \in DOMAIN channelOutput.sorted :
             (channelOutput.sorted[k].channel # channelOutput.channel
                /\ channelOutput.sorted[k].confidence > 30) =>
                \E i \in DOMAIN channelOutput.alternatives :
                   channelOutput.alternatives[i] = channelOutput.sorted[k].channel

\* C32: for an unset channel, a creator and a brand deal, selectChannel
\* returns dm and email is among the alternatives.
C32_CreatorBrandDeal ==
    (channelOutput.selected /\ channelInput.channel = "generic"
       /\ channelInput.targetType = "creator" /\ channelInput.purpose = "brand_deal") =>
       /\ channelOutput.channel = "dm"
       /\ \E i \in DOMAIN channelOutput.alternatives :
             channelOutput.alternatives[i] = "email"

\* C32 witness: selectChannel returned for a creator and a brand deal with
\* an unset channel and no location.
C32_Witness ==
    /\ channelOutput.selected
    /\ channelInput.channel = "generic"
    /\ channelInput.targetType = "creator"
    /\ channelInput.purpose = "brand_deal"
    /\ channelInput.location = ""

\* C36: for an unset channel the orchestrator's selectChannel and the
\* channel selector's selectChannel return the same channel.
C36_SelectorsAgree ==
    (channelOutput.selected /\ orchestratorChannel # ""
       /\ channelInput.channel = "generic") =>
       orchestratorChannel = channelOutput.channel

\* The template the three-level fallback selects: the first one for
\* (targetType, purpose), else the first for (generic, purpose), else the
\* first for (generic, general).
ThreeLevelFallback(templates, intent) ==
    LET exact == Matching(templates, intent.targetType, intent.purpose)
        samePurpose == Matching(templates, "generic", intent.purpose)
        general == Matching(templates, "generic", "general")
    IN IF exact # {} THEN First(exact)
       ELSE IF samePurpose # {} THEN First(samePurpose)
            ELSE First(general)

\* C33: a generated body has no placeholder left, whichever template was
\* selected for the intent, and for a follow-up too.
C33_NoPlaceholderLeft ==
    templateOutput.done => templateOutput.unresolved = {}

\* C34: over the shipped templates, selectTemplate returns the template
\* of the three-level fallback for every target type and purpose.
C34_SelectsAsThreeLevels ==
    (templateOutput.done /\ templateOutput.by = "generateMessage") =>
       templateOutput.template = ThreeLevelFallback(getTemplatesForChannel, templateInput)

\* C34 witness: a template was selected for a pair that no template
\* matches exactly, with a purpose other than general.
C34_Witness ==
    /\ templateOutput.done
    /\ templateOutput.by = "generateMessage"
    /\ templateInput.purpose = "hiring"
    /\ templateInput.targetType = "creator"
    /\ getTemplatesForChannel[templateOutput.template].id = "generic_professional"

\* C35: a batch has one message per target, in order, and a target
\* without a name is greeted neutrally: the text 'undefined' stands in
\* for its name nowhere.
C35_OneMessagePerTarget ==
    genOutput.done =>
       /\ Len(genOutput.messages) = Len(genInput.targets)
       /\ \A i \in DOMAIN genInput.targets :
             ~genInput.targets[i].hasName =>
                /\ genOutput.messages[i].salutation # "undefined"
                /\ genOutput.messages[i].subjectName # "undefined"

\* C24: once persistence was attempted, the run that returns success
\* returns the complete campaign, and its result carries a flag equal to
\* what saveCampaignToDatabase reported.
C24_NotSavedFlag ==
    (result.returned /\ result.success) =>
       /\ result.campaign.present
       /\ result.campaign.messages = result.campaign.targets
       /\ "saved" \in DOMAIN result
       /\ result.saved = saveResult.saved

\* C37: when saveCampaignToDatabase has reported saved = false, the record
\* store holds no Campaign, Target or Message row written by that call.
C37_NoPartialRecord ==
    (saveCalls > 0 /\ ~saveResult.saved) =>
       /\ ~store.campaign
       /\ store.targets = <<>>
       /\ store.messages = <<>>

\* C25: a run that was started terminates: it returns or rejects, even
\* when a collaborator never settles the promise the run awaits.
C25_RunTerminates ==
    (agentPc = "parseIntent") ~> (agentPc \in {"returned", "rejected"})

\* C28: sendBulkEmails attempts the messages once each and in list order;
\* no failure of a message (error result or exception of sendEmail) makes
\* it reject, only the progress callback can; and when it returns every
\* message was attempted, sent + failed = the number of messages, and
\* results has one entry per message, in order, telling its outcome.
C28_AtomicPerMessage ==
    LET n == Len(bulkInput.messages)
    IN /\ \A k \in DOMAIN bulkRun.attempts : bulkRun.attempts[k] = k
       /\ bulkRun.sent + bulkRun.failed = Len(bulkRun.results)
       /\ bulkRun.pc = "rejected" => bulkRun.thrownBy = "onProgress"
       /\ bulkRun.pc = "returned" =>
             /\ Len(bulkRun.attempts) = n
             /\ bulkRun.sent + bulkRun.failed = n
             /\ Len(bulkRun.results) = n
             /\ \A k \in 1..n :
                   /\ bulkRun.results[k].message = k
                   /\ bulkRun.results[k].success = (bulkInput.messages[k] = "success")

\* C28 witness: sendBulkEmails returned after sendEmail threw for the
\* first message, gave an error result for another and sent a later one.
C28_Witness ==
    /\ bulkRun.pc = "returned"
    /\ Len(bulkInput.messages) = MaxBatch
    /\ bulkInput.messages[1] = "throws"
    /\ bulkInput.messages[2] = "error"
    /\ bulkRun.sent = MaxBatch - 2
    /\ bulkRun.failed = 2

\* The calls of generateEmail made so far, finished or not.
Started == generating \cup {completed[k] : k \in DOMAIN completed}

\* C29: generation starts only after searchTargets returned, and for all
\* of its targets at once; the campaign is assembled (handed to
\* persistence, returned) only after every generateEmail call resolved;
\* and message i belongs to target i, one message per target, whatever
\* the order of resolution.
C29_JoinKeepsTargetOrder ==
    /\ Started # {} => (discovery = "returned" /\ targets > 0 /\ Started = 1..targets)
    /\ (emails # <<>> \/ saveCalls > 0 \/ result.campaign.present) =>
          (generating = {} /\ Len(completed) = targets)
    /\ emails # <<>> =>
          (Len(emails) = targets /\ \A i \in 1..targets : emails[i] = i)
    /\ result.campaign.present =>
          /\ Len(result.campaign.messageFor) = result.campaign.targets
          /\ \A i \in 1..result.campaign.targets : result.campaign.messageFor[i] = i

\* C29 witness: a campaign was returned after the calls resolved in
\* another order than the targets' order.
C29_Witness ==
    /\ result.campaign.present
    /\ Len(completed) >= 2
    /\ completed[1] # 1

\* C30: every message's targetId is the id of a target of the same
\* campaign: in the returned campaign, and in the message batch handed
\* to the record store relative to the Target rows stored.
C30_TargetIdRefersToTarget ==
    /\ result.campaign.present =>
          \A i \in DOMAIN result.campaign.messageTargetIds :
             \E j \in DOMAIN result.campaign.targetIds :
                result.campaign.targetIds[j] = result.campaign.messageTargetIds[i]
    /\ \A i \in DOMAIN store.messageBatch :
          \E j \in DOMAIN store.targets :
             store.targets[j].id = store.messageBatch[i].targetId

\* ---------------------------------------------------------------------
\* Properties of follow-up messages and of the scheduler loop
\* ---------------------------------------------------------------------

\* C26: a follow-up message is created in draft, and none that has not
\* been approved since has been handed to sendFollowUp.
C26_FollowUpStartsInDraft ==
    \A a \in DOMAIN actions :
       followUpStatus[a] # "" => (followUpStatus[a] = "draft" /\ sends[a] = 0)

\* C38: no follow-up is sent for a pending action whose original message
\* has been replied to since the action was scheduled.
C38_NoSendAfterReply ==
    [][\A a \in DOMAIN actions :
          sends'[a] > sends[a] => originalStatus[actions[a].messageId] # "REPLIED"]_vars

\* C27: an invocation of processFollowUps that has entered its loop never
\* rejects, and when it has returned it has processed every row it read.
C27_LoopNeverErrors ==
    \A t \in TickIds :
       /\ ticks[t].pc = "rejected" => ticks[t].pending = <<>>
       /\ ticks[t].pc = "done" => ticks[t].i = Len(ticks[t].pending)

====
